---- MODULE Spec2Model ----
(***************************************************************************)
(* Model of the `gen` project scaffolder: src/src/main.rs (argument        *)
(* handling) and src/src/project.rs (Project::new and Project::generate).  *)
(* One run of the program is one behaviour: the command line, the template *)
(* store and the working directory are chosen in Init, the outcome of each *)
(* external tool is chosen when the tool is invoked.                       *)
(***************************************************************************)
EXTENDS Naturals, Sequences, FiniteSets, TLC

VARIABLES entry, argv, project, home, tdir, tmpl, fs0, fs, pc, result, error,
          resolved, log

vars == <<entry, argv, project, home, tdir, tmpl, fs0, fs, pc, result, error,
          resolved, log>>

\* How many things may be wrong with the template store / environment.
MaxAnomalies == 1

-----------------------------------------------------------------------------
\* Option<String>
None == [some |-> FALSE, val |-> <<>>]
Some(s) == [some |-> TRUE, val |-> s]

Langs == {"Rust", "C", "Cpp", "Go", "Java"}
Kinds == {"Library", "Executable"}

\* impl FromStr for Lang
LangFromStr(s) ==
    CASE s \in {"rust", "rs"} -> "Rust"
      [] s = "c" -> "C"
      [] s \in {"cpp", "c++", "cc"} -> "Cpp"
      [] s = "java" -> "Java"
      [] s = "go" -> "Go"
      [] OTHER -> "Invalid"

\* the match on args.lang in main
MainLang(s) ==
    CASE s = "c" -> "C"
      [] s \in {"cpp", "c++", "cc"} -> "Cpp"
      [] s = "java" -> "Java"
      [] s \in {"rust", "rs"} -> "Rust"
      [] OTHER -> "Invalid"

\* the match on args.kind in main; k is an Option
MainKind(k) ==
    IF k.some /\ k.val \in {"lib", "library"} THEN "Library" ELSE "Executable"

\* #[arg(index = ..)] of struct Args
LangIndex == 2
KindIndex == 3
\* Variant of NameIndex: the name is read from the language's position.
NameIndexSwapped == LangIndex
NameIndex == 1

Positional(a, i) == IF i <= Len(a.pos) THEN Some(a.pos[i]) ELSE None

-----------------------------------------------------------------------------
\* The file system below the working directory.  A path is the sequence of
\* its components relative to the project directory; <<>> is the project
\* directory itself.
Root == <<>>
SrcDir == <<"src">>
Join(p, c) == Append(p, c)
Parent(p) == SubSeq(p, 1, Len(p) - 1)

Dir == [kind |-> "dir", src |-> ""]
FileOf(k, s) == [kind |-> k, src |-> s]

Exists(f, p) == p \in DOMAIN f
IsDir(f, p) == p \in DOMAIN f /\ f[p].kind = "dir"
Put(f, p, v) == [q \in (DOMAIN f) \cup {p} |-> IF q = p THEN v ELSE f[q]]

\* std::fs::create_dir: the directory must not exist, its parent must
CanCreateDir(f, p) == ~Exists(f, p) /\ (p = Root \/ IsDir(f, Parent(p)))
\* File::create / fs::write / destination of fs::copy
CanWriteFile(f, p) == p # Root /\ IsDir(f, Parent(p)) /\ ~IsDir(f, p)

EmptyTree == [p \in {} |-> Dir]
RootIsFile == Put(EmptyTree, Root, FileOf("old", ""))
RootIsDir == Put(Put(Put(EmptyTree, Root, Dir), SrcDir, Dir),
                 <<"Makefile">>, FileOf("old", ""))
InitialTrees == {EmptyTree, RootIsFile, RootIsDir}

-----------------------------------------------------------------------------
\* The template subtree of the selected language
TemplateFiles == {"Makefile.lib", "Makefile.bin", ".gitignore", "domain",
                  "main", "manifest.txt"}
TemplateStates == {"ok", "missing", "malformed"}

\* content of <template_dir>/domain when it exists
DomainFileContent == <<" ", "o", "r", "g", "\n">>
Whitespace == {" ", "\n", "\t"}

RECURSIVE TrimStart(_)
TrimStart(s) ==
    IF s = <<>> THEN s
    ELSE IF Head(s) \in Whitespace THEN TrimStart(Tail(s)) ELSE s

RECURSIVE TrimEnd(_)
TrimEnd(s) ==
    IF s = <<>> THEN s
    ELSE IF s[Len(s)] \in Whitespace THEN TrimEnd(SubSeq(s, 1, Len(s) - 1))
    ELSE s

\* str::trim
Trim(s) == TrimEnd(TrimStart(s))

Words == {"c", "java", "rs", "demo"}
KindWords == {"lib", "x"}
ExplicitDomains == {None, Some(<<"c", "o", "m">>), Some(<<" ", "c", "o", "m">>)}

\* outcome of std::process::Command::output()
ToolOutcomes == {"launch_fail", "exit0_quiet", "exit0_noisy",
                 "nonzero_quiet", "nonzero_noisy"}
ExitZero(out) == out \in {"exit0_quiet", "exit0_noisy"}
StderrEmpty(out) == out \in {"exit0_quiet", "nonzero_quiet"}

-----------------------------------------------------------------------------
\* A run record threads the file system, the step log and the pending
\* Result through the statements of one method.  Each log entry names the
\* step, its sort (dir, copy, render, create, domain, tool), whether it
\* succeeded and the paths it wrote.
Entry(step, sort, ok, wrote) ==
    [step |-> step, sort |-> sort, ok |-> ok, wrote |-> wrote]

Begin == [fs |-> fs, log |-> log, ok |-> TRUE, err |-> ""]

\* Variant of Try: the error of a failed step is dropped, not returned.
TryNoAbort(r, step, sort, cond, f2, wrote, e) ==
    IF ~r.ok THEN r
    ELSE IF cond
         THEN [r EXCEPT !.fs = f2,
                        !.log = Append(@, Entry(step, sort, TRUE, wrote))]
         ELSE [r EXCEPT !.log = Append(@, Entry(step, sort, FALSE, {}))]

\* `expr?` : a fail-fast step.  Nothing after a failed step runs.
Try(r, step, sort, cond, f2, wrote, e) ==
    IF ~r.ok THEN r
    ELSE IF cond
         THEN [r EXCEPT !.fs = f2,
                        !.log = Append(@, Entry(step, sort, TRUE, wrote))]
         ELSE [r EXCEPT !.ok = FALSE, !.err = e,
                        !.log = Append(@, Entry(step, sort, FALSE, {}))]

\* `match output { Ok(..) => println, Err(..) => println }` : a fail-soft
\* tool invocation.  f2 is the tree the tool leaves when it succeeds.
Soft(r, step, cond, f2, wrote) ==
    IF ~r.ok THEN r
    ELSE [r EXCEPT !.fs = IF cond THEN f2 ELSE r.fs,
                   !.log = Append(@, Entry(step, "tool", cond,
                                           IF cond THEN wrote ELSE {}))]

\* fs::copy(template_dir.join(t), to)?
Copy(r, step, t, to) ==
    Try(r, step, "copy",
        tmpl[t] # "missing" /\ CanWriteFile(r.fs, to),
        Put(r.fs, to, FileOf("copy", t)), {to}, "Io")

TemplateError(f, t, to) ==
    IF tmpl[t] = "missing" THEN "TemplateMissing"
    ELSE IF tmpl[t] = "malformed" THEN "TemplateSyntax"
    ELSE IF ~CanWriteFile(f, to) THEN "Io"
    ELSE ""

\* Project::template
Template(r, step, t, to) ==
    Try(r, step, "render",
        TemplateError(r.fs, t, to) = "",
        Put(r.fs, to, FileOf("render", t)), {to},
        TemplateError(r.fs, t, to))

\* Variant of GetDefaultDomain: an unreadable domain file gives the empty
\* domain (unwrap_or_default) instead of the error.
GetDefaultDomainLenient(p) ==
    IF p.domain.some THEN [ok |-> TRUE, val |-> p.domain.val, err |-> ""]
    ELSE IF p.lang \notin {"Go", "Java"}
         THEN [ok |-> FALSE, val |-> <<>>, err |-> "NoDomainFile"]
         ELSE [ok |-> TRUE,
               val |-> IF tmpl["domain"] = "missing" THEN <<>>
                       ELSE Trim(DomainFileContent),
               err |-> ""]

\* Project::get_default_domain
GetDefaultDomain(p) ==
    IF p.domain.some THEN [ok |-> TRUE, val |-> p.domain.val, err |-> ""]
    ELSE IF p.lang \notin {"Go", "Java"}
         THEN [ok |-> FALSE, val |-> <<>>, err |-> "NoDomainFile"]
         ELSE IF tmpl["domain"] = "missing"
              THEN [ok |-> FALSE, val |-> <<>>, err |-> "DomainFileUnreadable"]
              ELSE [ok |-> TRUE, val |-> Trim(DomainFileContent), err |-> ""]

\* `let domain = match &self.domain { Some(d) => d, None => get_default_domain()? }`
DomainOf(p) ==
    IF p.domain.some THEN [ok |-> TRUE, val |-> p.domain.val, err |-> ""]
    ELSE GetDefaultDomain(p)

ResolveDomain(r, p) ==
    Try(r, "resolve_domain", "domain", DomainOf(p).ok, r.fs, {}, DomainOf(p).err)

\* Variant of WantsStub: the stub is written whatever the kind.
WantsStubAlways(kind) == TRUE
\* `self.kind == ProjectKind::Executable` guarding the entry-point stub
WantsStub(kind) == kind = "Executable"

\* Variant of MakefileName: the two arms exchanged.
MakefileNameSwapped(kind) ==
    IF kind = "Library" THEN "Makefile.bin" ELSE "Makefile.lib"
\* `match self.kind` in create_makefile
MakefileName(kind) ==
    IF kind = "Library" THEN "Makefile.lib" ELSE "Makefile.bin"

MainName(lang) ==
    CASE lang = "C" -> "main.c"
      [] lang = "Cpp" -> "main.cpp"
      [] lang = "Go" -> "main.go"
      [] lang = "Rust" -> "main.rs"
      [] OTHER -> "main.java"

\* where the branch of the language puts the entry-point stub
MainPath(lang) ==
    IF lang = "Go" THEN <<MainName(lang)>> ELSE Join(SrcDir, MainName(lang))

\* Project::create_dir
CreateDirSteps(r, lang) ==
    LET r1 == Try(r, "create_dir", "dir", CanCreateDir(r.fs, Root),
                  Put(r.fs, Root, Dir), {Root}, "Io")
    IN  IF lang # "Go"
        THEN Try(r1, "create_dir_src", "dir", CanCreateDir(r1.fs, SrcDir),
                 Put(r1.fs, SrcDir, Dir), {SrcDir}, "Io")
        ELSE r1

ClangFormatPath == <<".clang-format">>

\* the test of create_clang_format on the tool's outcome that returns Err
ClangFormatRejects(out) == out = "launch_fail" \/ StderrEmpty(out)

\* Project::create_clang_format
ClangFormatSteps(r, out) ==
    LET r1 == Try(r, "create_clang_format_file", "create",
                  CanWriteFile(r.fs, ClangFormatPath),
                  Put(r.fs, ClangFormatPath, FileOf("empty", "")),
                  {ClangFormatPath}, "Io")
        r2 == Soft(r1, "clang-format", ExitZero(out),
                   Put(r1.fs, ClangFormatPath, FileOf("tool", "clang-format")),
                   {ClangFormatPath})
    IN  IF r2.ok /\ ClangFormatRejects(out)
        THEN [r2 EXCEPT !.ok = FALSE, !.err = "ClangFormat"]
        ELSE r2

\* Project::create_c_project
CSteps(r, p, out) ==
    LET r1 == ClangFormatSteps(r, out)
    IN  IF WantsStub(p.kind) THEN Copy(r1, "copy_main", "main", MainPath("C"))
        ELSE r1

\* Project::create_cpp_project
CppSteps(r, p, out) ==
    LET r1 == ClangFormatSteps(r, out)
    IN  IF WantsStub(p.kind)
        THEN Template(r1, "render_main", "main", MainPath("Cpp"))
        ELSE r1

\* `go mod init <domain>/<name>` run inside the project directory
GoModInit(r, out) ==
    Soft(r, "go", ExitZero(out) /\ IsDir(r.fs, Root) /\ ~Exists(r.fs, <<"go.mod">>),
         Put(r.fs, <<"go.mod">>, FileOf("tool", "go")), {<<"go.mod">>})

\* Project::create_go_project
GoSteps(r, p, out) ==
    LET r1 == ResolveDomain(r, p)
        r2 == GoModInit(r1, out)
    IN  IF WantsStub(p.kind)
        THEN Template(r2, "render_main", "main", MainPath("Go"))
        ELSE r2

MvnTree(f) ==
    Put(Put(Put(Put(Put(Put(f, Root, Dir), <<"pom.xml">>, FileOf("tool", "mvn")),
        SrcDir, Dir), <<"src", "main">>, Dir), <<"src", "main", "java">>, Dir),
        <<"src", "main", "java", "App.java">>, FileOf("tool", "mvn"))
MvnPaths == {Root, <<"pom.xml">>, SrcDir, <<"src", "main">>,
             <<"src", "main", "java">>, <<"src", "main", "java", "App.java">>}

\* `mvn archetype:generate -DartifactId=<name> ...` in the working directory
MvnGenerate(r, out) ==
    Soft(r, "mvn", ExitZero(out) /\ ~Exists(r.fs, Root), MvnTree(r.fs), MvnPaths)

\* Project::create_java_project
JavaSteps(r, p, out) ==
    LET r1 == ResolveDomain(r, p)
        r2 == MvnGenerate(r1, out)
    IN  Template(r2, "render_manifest", "manifest.txt", <<"manifest.txt">>)

CargoEntry(kind) == IF kind = "Library" THEN "lib.rs" ELSE "main.rs"
CargoTree(f, kind) ==
    Put(Put(Put(Put(Put(f, Root, Dir), <<"Cargo.toml">>, FileOf("tool", "cargo")),
        <<".gitignore">>, FileOf("tool", "cargo")), SrcDir, Dir),
        Join(SrcDir, CargoEntry(kind)), FileOf("tool", "cargo"))
CargoPaths(kind) == {Root, <<"Cargo.toml">>, <<".gitignore">>, SrcDir,
                     Join(SrcDir, CargoEntry(kind))}

\* `cargo new <name> --lib|--bin` in the working directory
CargoNew(r, kind, out) ==
    Soft(r, "cargo", ExitZero(out) /\ ~Exists(r.fs, Root),
         CargoTree(r.fs, kind), CargoPaths(kind))

LibRsPath == <<"src", "lib.rs">>

\* Project::create_rust_project
RustSteps(r, p, out) ==
    LET r1 == CargoNew(r, p.kind, out)
        r2 == IF WantsStub(p.kind)
              THEN Copy(r1, "copy_main", "main", MainPath("Rust"))
              ELSE r1
    IN  Try(r2, "create_lib", "create", CanWriteFile(r2.fs, LibRsPath),
            Put(r2.fs, LibRsPath, FileOf("empty", "")), {LibRsPath}, "Io")

\* Project::create_gitignore
GitignoreSteps(r) == Copy(r, "gitignore", ".gitignore", <<".gitignore">>)

\* Project::create_makefile
MakefileSteps(r, p) ==
    Template(r, "makefile", MakefileName(p.kind), <<"Makefile">>)

-----------------------------------------------------------------------------
NoProject == [name |-> "", lang |-> "Invalid", kind |-> "Executable",
              domain |-> None]

Anomalies(h, d, t) ==
    Cardinality({x \in TemplateFiles : t[x] # "ok"})
      + (IF h THEN 0 ELSE 1) + (IF d THEN 0 ELSE 1)

\* the environment of one run
InitEnv ==
    /\ home \in BOOLEAN
    /\ tdir \in BOOLEAN
    /\ tmpl \in [TemplateFiles -> TemplateStates]
    /\ Anomalies(home, tdir, tmpl) <= MaxAnomalies
    /\ fs0 \in InitialTrees
    /\ fs = fs0
    /\ log = <<>>
    /\ result = "running"
    /\ error = ""
    /\ resolved = None

CommandLines ==
    {[pos |-> w, domain |-> d] :
        w \in {<<a>> : a \in Words}
              \cup {<<a, b>> : a \in Words, b \in Words}
              \cup {<<a, b, c>> : a \in Words, b \in Words, c \in KindWords},
        d \in ExplicitDomains}

\* the binary, started with a command line
InitCli ==
    /\ entry = "cli"
    /\ argv \in CommandLines
    /\ project = NoProject
    /\ pc = "main"

\* the library, called as Project::new(name, lang, kind, domain).generate()
InitLib ==
    /\ entry = "lib"
    /\ argv = [pos |-> <<>>, domain |-> None]
    /\ project \in [name : {"demo"}, lang : Langs, kind : Kinds,
                    domain : ExplicitDomains]
    /\ pc = "new"

Init == InitEnv /\ (InitCli \/ InitLib)

Stop(res, err) ==
    /\ pc' = "done"
    /\ result' = res
    /\ error' = err

\* how a method's Result continues generate
Finish(r, nextpc) ==
    /\ fs' = r.fs
    /\ log' = r.log
    /\ IF r.ok
       THEN /\ pc' = nextpc
            /\ result' = IF nextpc = "done" THEN "ok" ELSE result
            /\ error' = error
       ELSE Stop("err", r.err)

\* main, up to the call of Project::new
Main ==
    /\ pc = "main"
    /\ UNCHANGED <<entry, argv, home, tdir, tmpl, fs0, fs, resolved, log>>
    /\ IF Len(argv.pos) < 2
       THEN Stop("exit", "Usage") /\ UNCHANGED project
       ELSE LET name == argv.pos[NameIndex]
                lang == MainLang(argv.pos[LangIndex])
                kind == MainKind(Positional(argv, KindIndex))
            IN  IF lang = "Invalid"
                THEN Stop("panic", "InvalidLanguage") /\ UNCHANGED project
                ELSE IF lang = "Java" /\ ~argv.domain.some
                THEN Stop("panic", "DomainRequired") /\ UNCHANGED project
                ELSE /\ project' = [name |-> name, lang |-> lang,
                                    kind |-> kind, domain |-> argv.domain]
                     /\ pc' = "new"
                     /\ UNCHANGED <<result, error>>

\* Variant of TargetIsDir: is_file() in place of is_dir().
TargetIsFile(f) == Exists(f, Root) /\ ~IsDir(f, Root)
\* `project_dir.is_dir()` in Project::new
TargetIsDir(f) == IsDir(f, Root)

\* Variant of NeedsCreateDir: the Go arm forgets create_dir.
NeedsCreateDirNotGo(lang) == lang \in {"C", "Cpp"}
\* the arms of generate that call create_dir first
NeedsCreateDir(lang) == lang \in {"C", "Cpp", "Go"}

\* Project::new, and the dispatch of generate on its result
New ==
    /\ pc = "new"
    /\ UNCHANGED <<entry, argv, project, home, tdir, tmpl, fs0, fs, resolved, log>>
    /\ IF TargetIsDir(fs) THEN Stop("exit", "AlreadyExists")
       ELSE IF ~home THEN Stop("panic", "NoHome")
       ELSE IF ~tdir THEN Stop("exit", "TemplateDirectoryMissing")
       ELSE /\ pc' = IF NeedsCreateDir(project.lang) THEN "create_dir" ELSE "lang"
            /\ UNCHANGED <<result, error>>

CreateDir ==
    /\ pc = "create_dir"
    /\ Finish(CreateDirSteps(Begin, project.lang), "lang")
    /\ UNCHANGED <<entry, argv, project, home, tdir, tmpl, fs0, resolved>>

CreateCProject ==
    /\ pc = "lang" /\ project.lang = "C"
    /\ \E out \in ToolOutcomes : Finish(CSteps(Begin, project, out), "gitignore")
    /\ UNCHANGED <<entry, argv, project, home, tdir, tmpl, fs0, resolved>>

CreateCppProject ==
    /\ pc = "lang" /\ project.lang = "Cpp"
    /\ \E out \in ToolOutcomes : Finish(CppSteps(Begin, project, out), "gitignore")
    /\ UNCHANGED <<entry, argv, project, home, tdir, tmpl, fs0, resolved>>

Resolved(p) == IF DomainOf(p).ok THEN Some(DomainOf(p).val) ELSE None

CreateGoProject ==
    /\ pc = "lang" /\ project.lang = "Go"
    /\ \E out \in ToolOutcomes : Finish(GoSteps(Begin, project, out), "gitignore")
    /\ resolved' = Resolved(project)
    /\ UNCHANGED <<entry, argv, project, home, tdir, tmpl, fs0>>

CreateJavaProject ==
    /\ pc = "lang" /\ project.lang = "Java"
    /\ \E out \in ToolOutcomes : Finish(JavaSteps(Begin, project, out), "gitignore")
    /\ resolved' = Resolved(project)
    /\ UNCHANGED <<entry, argv, project, home, tdir, tmpl, fs0>>

CreateRustProject ==
    /\ pc = "lang" /\ project.lang = "Rust"
    /\ \E out \in ToolOutcomes : Finish(RustSteps(Begin, project, out), "gitignore")
    /\ UNCHANGED <<entry, argv, project, home, tdir, tmpl, fs0, resolved>>

CreateGitignore ==
    /\ pc = "gitignore"
    /\ Finish(GitignoreSteps(Begin), "makefile")
    /\ UNCHANGED <<entry, argv, project, home, tdir, tmpl, fs0, resolved>>

CreateMakefile ==
    /\ pc = "makefile"
    /\ Finish(MakefileSteps(Begin, project), "done")
    /\ UNCHANGED <<entry, argv, project, home, tdir, tmpl, fs0, resolved>>

Next ==
    \/ Main
    \/ New
    \/ CreateDir
    \/ CreateCProject
    \/ CreateCppProject
    \/ CreateGoProject
    \/ CreateJavaProject
    \/ CreateRustProject
    \/ CreateGitignore
    \/ CreateMakefile

Spec == Init /\ [][Next]_vars

TypeOK ==
    /\ pc \in {"main", "new", "create_dir", "lang", "gitignore", "makefile", "done"}
    /\ result \in {"running", "ok", "err", "exit", "panic"}
    /\ (pc = "done") = (result # "running")

-----------------------------------------------------------------------------
\* Vocabulary of the properties

Finished == pc = "done"
Steps == {log[i].step : i \in DOMAIN log}
HasStep(s) == s \in Steps

\* the language and domain the caller asked for
RequestedLang ==
    IF entry = "cli"
    THEN IF Len(argv.pos) >= LangIndex THEN LangFromStr(argv.pos[LangIndex])
         ELSE "Invalid"
    ELSE project.lang
RequestedDomain == IF entry = "cli" THEN argv.domain ELSE project.domain

EntryPointNames == {"main.c", "main.cpp", "main.go", "main.rs", "main.java"}
EntryPoints(f) == {p \in DOMAIN f : p # Root /\ p[Len(p)] \in EntryPointNames}

ValidTemplates == home /\ tdir /\ \A t \in TemplateFiles : tmpl[t] = "ok"
Fresh == fs0 = EmptyTree
PreflightOk == ~IsDir(fs0, Root) /\ home /\ tdir
DomainErrors == {"DomainRequired", "DomainFileUnreadable", "NoDomainFile"}
InternalSorts == {"dir", "copy", "render", "create", "domain"}
HasFile(f, p, v) == p \in DOMAIN f /\ f[p] = v

\* C1: when the target name is an existing directory at construction, the
\* run fails without executing any step (no create_dir, copy, render or
\* tool) and the directory's contents stay as they were.
C1_ExistingDirUntouched ==
    IsDir(fs0, Root) =>
        /\ log = <<>>
        /\ fs = fs0
        /\ Finished => result \in {"exit", "panic"}

C1_Witness ==
    IsDir(fs0, Root) /\ Finished /\ result = "exit" /\ error = "AlreadyExists"

C3_CommonArtifactsOnSuccess ==
    result = "ok" =>
        /\ HasFile(fs, <<".gitignore">>, FileOf("copy", ".gitignore"))
        /\ project.kind = "Library"
              => HasFile(fs, <<"Makefile">>, FileOf("render", "Makefile.lib"))
        /\ project.kind = "Executable"
              => HasFile(fs, <<"Makefile">>, FileOf("render", "Makefile.bin"))

C3_Witness ==
    result = "ok" /\ project.kind = "Library" /\ project.lang = "Go"

\* C4: the failure of an external tool alone never makes generate return an
\* error: whenever generate returns an error, one of the program's own
\* steps (directory, copy, render, create, domain) has failed.
C4_ToolFailureNonFatal ==
    result = "err" =>
        \E i \in DOMAIN log : log[i].sort \in InternalSorts /\ ~log[i].ok

\* C5: domain resolution for the domain-requiring languages: an explicit
\* domain is used verbatim; without one, a readable domain file gives its
\* trimmed content, from the library and from the command line alike; a
\* domain error occurs only when both are absent; other languages never
\* fail on the domain.
C5_DomainResolutionOrder ==
    (Finished /\ PreflightOk) =>
        IF RequestedLang \in {"Java", "Go"}
        THEN /\ (RequestedDomain.some /\ resolved.some)
                   => resolved = RequestedDomain
             /\ (~RequestedDomain.some /\ tmpl["domain"] # "missing")
                   => resolved = Some(Trim(DomainFileContent))
             /\ error \in DomainErrors
                   => (~RequestedDomain.some /\ tmpl["domain"] = "missing")
        ELSE error \notin DomainErrors

\* C6: generate("demo", C, Library) with valid templates, a fresh target and
\* a clang-format that exits with status 0 completes successfully, with no
\* entry-point file and with the Makefile rendered from Makefile.lib.
C6_CLibraryScenario ==
    ( /\ project.lang = "C" /\ project.kind = "Library"
      /\ ValidTemplates /\ Fresh /\ Finished
      /\ \E i \in DOMAIN log : log[i].step = "clang-format" /\ log[i].ok )
    => /\ result = "ok"
       /\ EntryPoints(fs) = {}
       /\ HasFile(fs, <<"Makefile">>, FileOf("render", "Makefile.lib"))

\* C7: a Java project with no explicit domain and no domain file never
\* invokes mvn and never writes anything; the run ends in a failure, which
\* is a domain error whenever the pre-flight checks passed.
C7_JavaNoDomainAborts ==
    (RequestedLang = "Java" /\ ~RequestedDomain.some /\ tmpl["domain"] = "missing")
    => /\ ~HasStep("mvn")
       /\ fs = fs0
       /\ pc \notin {"gitignore", "makefile"}
       /\ Finished => /\ result \in {"err", "panic", "exit"}
                      /\ PreflightOk => error \in DomainErrors

C7_Witness ==
    /\ entry = "lib" /\ project.lang = "Java" /\ ~project.domain.some
    /\ tmpl["domain"] = "missing"
    /\ Finished /\ result = "err" /\ error = "DomainFileUnreadable"
    /\ log = <<Entry("resolve_domain", "domain", FALSE, {})>>

\* C8 as stated: the first positional argument is the language, the second
\* the project name, the optional third the kind; --domain is a named option.
C8_Original ==
    (entry = "cli" /\ project # NoProject) =>
        /\ project.lang = MainLang(argv.pos[1])
        /\ project.name = argv.pos[2]
        /\ project.kind = MainKind(Positional(argv, 3))
        /\ project.domain = argv.domain

\* C8 amended: the first positional argument is the project name, the
\* second is parsed as the language, the optional third as the kind;
\* --domain is a named option; a second positional that main does not
\* accept as a language ends the run in main.
C8_PositionalOrder ==
    /\ (entry = "cli" /\ project # NoProject) =>
          /\ project.name = argv.pos[1]
          /\ project.lang = MainLang(argv.pos[2])
          /\ project.kind = MainKind(Positional(argv, 3))
          /\ project.domain = argv.domain
    /\ (entry = "cli" /\ Finished /\ Len(argv.pos) >= 2
          /\ MainLang(argv.pos[2]) = "Invalid")
          => (result = "panic" /\ error = "InvalidLanguage" /\ log = <<>>)

C8_Witness ==
    /\ entry = "cli" /\ argv.pos = <<"demo", "c", "lib">>
    /\ project.name = "demo" /\ project.lang = "C" /\ project.kind = "Library"
    /\ result = "ok"

Phase(step) ==
    IF step = "gitignore" THEN 2 ELSE IF step = "makefile" THEN 3 ELSE 1

\* C9: the steps of a run execute in the order language branch, .gitignore,
\* Makefile, none of them twice; after a failed internal step no further
\* step runs and generate returns the error; whatever earlier steps wrote
\* is still there.
C9_SequentialFailFast ==
    /\ \A i, j \in DOMAIN log :
          i < j => /\ Phase(log[i].step) <= Phase(log[j].step)
                   /\ log[i].step # log[j].step
    /\ \A j \in DOMAIN log :
          log[j].step = "makefile"
             => \E i \in 1..(j - 1) : log[i].step = "gitignore" /\ log[i].ok
    /\ \A i \in DOMAIN log :
          (log[i].sort \in InternalSorts /\ ~log[i].ok)
             => (i = Len(log) /\ Finished /\ result = "err")
    /\ \A i \in DOMAIN log : log[i].ok => log[i].wrote \subseteq DOMAIN fs
    /\ DOMAIN fs0 \subseteq DOMAIN fs

C9_Witness ==
    /\ Finished /\ result = "err" /\ Len(log) >= 3
    /\ log[Len(log)].step = "makefile" /\ ~log[Len(log)].ok
    /\ HasFile(fs, <<".gitignore">>, FileOf("copy", ".gitignore"))

\* C10 as stated: in every run, for every language, create_dir has created
\* the project root before any per-language copy, render, create or tool
\* step, and only create_dir creates directories.
C10_Original ==
    /\ \A j \in DOMAIN log :
          log[j].sort \in {"copy", "render", "create", "tool"}
             => \E i \in 1..(j - 1) : log[i].step = "create_dir" /\ log[i].ok
    /\ \A i \in DOMAIN log :
          (log[i].ok /\ \E p \in log[i].wrote : IsDir(fs, p))
             => log[i].sort = "dir"

\* C10 amended: for C, C++ and Go create_dir creates the project root, and
\* src except for Go, before any other step of the run; for Java and Rust
\* create_dir never runs and directories come only from mvn or cargo;
\* create_dir is the only step of the program itself that creates
\* directories.
C10_DirectoryCreation ==
    /\ project.lang \in {"C", "Cpp", "Go"} =>
          \A j \in DOMAIN log :
             log[j].sort # "dir" =>
                /\ \E i \in 1..(j - 1) : log[i].step = "create_dir" /\ log[i].ok
                /\ IF project.lang = "Go" THEN ~HasStep("create_dir_src")
                   ELSE \E i \in 1..(j - 1) :
                           log[i].step = "create_dir_src" /\ log[i].ok
    /\ project.lang \in {"Java", "Rust"} =>
          \A i \in DOMAIN log : log[i].sort # "dir"
    /\ \A i \in DOMAIN log :
          (log[i].ok /\ \E p \in log[i].wrote : IsDir(fs, p))
             => \/ log[i].sort = "dir"
                \/ (log[i].step \in {"cargo", "mvn"}
                      /\ project.lang \in {"Java", "Rust"})

C10_Witness ==
    /\ project.lang = "Rust" /\ result = "ok" /\ IsDir(fs, SrcDir)
    /\ ~HasStep("create_dir") /\ HasStep("cargo")

====
